---------------------------- MODULE Spec2Model ----------------------------
(***************************************************************************)
(* Model of the hsl crate (src/src/lib.rs): HSL::from_rgb, HSL::to_rgb,    *)
(* percent_to_byte and hue_to_rgb.                                         *)
(*                                                                         *)
(* The crate computes in f64.  Every f64 operation of the source is        *)
(* modelled bit for bit: IEEE 754 binary64, round to nearest, ties to      *)
(* even.  A mantissa has 53 bits and a product 106, more than a TLC        *)
(* integer holds, so natural numbers are sequences of 15-bit limbs, least  *)
(* significant limb first, without leading zero limbs.                     *)
(***************************************************************************)
EXTENDS Integers, Sequences, FiniteSets

(***************************************************************************)
(* Natural numbers of any size.  The operations are written without        *)
(* recursion over the limbs: carries and borrows are looked ahead.         *)
(***************************************************************************)
Base == 2 ^ 15

Limb(a, i) == IF i >= 1 /\ i <= Len(a) THEN a[i] ELSE 0

\* the index of the leading limb, 0 for zero
Top(a) ==
  IF \A i \in 1..Len(a) : a[i] = 0 THEN 0
  ELSE CHOOSE i \in 1..Len(a) : a[i] # 0 /\ \A j \in (i + 1)..Len(a) : a[j] = 0

Norm(a) == SubSeq(a, 1, Top(a))

\* for 0 <= n < 2^31
BFromInt(n) == Norm(<<n % Base, (n \div Base) % Base, n \div (Base * Base)>>)

\* for a < 2^30
BToInt(a) == Limb(a, 1) + Base * Limb(a, 2)

\* for 0 <= n < Base
IntBitLen(n) == CHOOSE k \in 0..15 : 2 ^ k > n /\ (k = 0 \/ 2 ^ (k - 1) <= n)

BitLen(a) == IF a = <<>> THEN 0 ELSE 15 * (Len(a) - 1) + IntBitLen(a[Len(a)])

BIsOdd(a) == a # <<>> /\ a[1] % 2 = 1

\* the leading limb in which a and b, of the same length, differ
TopDiff(a, b) ==
  CHOOSE i \in 1..Len(a) : a[i] # b[i] /\ \A j \in (i + 1)..Len(a) : a[j] = b[j]

BCmp(a, b) ==
  IF Len(a) # Len(b) THEN (IF Len(a) < Len(b) THEN -1 ELSE 1)
  ELSE IF a = b THEN 0
  ELSE IF a[TopDiff(a, b)] < b[TopDiff(a, b)] THEN -1 ELSE 1

\* the carry into limb i of the sum of the limbs w, each at most 2 * Base - 2
CarryIn(w, i) ==
  \E j \in 1..(i - 1) :
     w[j] >= Base /\ \A k \in (j + 1)..(i - 1) : w[k] = Base - 1

\* the number with the limbs w, each at most 2 * Base - 2 and the last 0
Carried(w) ==
  Norm([i \in 1..Len(w) |-> (w[i] + (IF CarryIn(w, i) THEN 1 ELSE 0)) % Base])

BAdd(a, b) ==
  Carried(SubSeq([i \in 1..(Len(a) + Len(b) + 1) |-> Limb(a, i) + Limb(b, i)],
                 1, Len(a) + Len(b) + 1))

\* the borrow from limb i of a - b
BorrowIn(a, b, i) ==
  \E j \in 1..(i - 1) :
     a[j] < Limb(b, j) /\ \A k \in (j + 1)..(i - 1) : a[k] = Limb(b, k)

\* a - b for a >= b
BSub(a, b) ==
  Norm([i \in 1..Len(a) |->
          ((a[i] + Base - Limb(b, i)) - (IF BorrowIn(a, b, i) THEN 1 ELSE 0))
            % Base])

\* a * k for 0 <= k < Base
BMulSmall(a, k) ==
  Carried(SubSeq([i \in 1..(Len(a) + 2) |->
                    ((Limb(a, i) * k) % Base) + ((Limb(a, i - 1) * k) \div Base)],
                 1, Len(a) + 2))

\* column c of the product of a, of at most 4 limbs, and b: the low halves
\* and the high halves of the limb products
ColLow(a, b, c) ==
  ((Limb(a, 1) * Limb(b, c)) % Base) + ((Limb(a, 2) * Limb(b, c - 1)) % Base)
    + ((Limb(a, 3) * Limb(b, c - 2)) % Base)
    + ((Limb(a, 4) * Limb(b, c - 3)) % Base)

ColHigh(a, b, c) ==
  ((Limb(a, 1) * Limb(b, c)) \div Base)
    + ((Limb(a, 2) * Limb(b, c - 1)) \div Base)
    + ((Limb(a, 3) * Limb(b, c - 2)) \div Base)
    + ((Limb(a, 4) * Limb(b, c - 3)) \div Base)

Col(a, b, c) == ColLow(a, b, c) + ColHigh(a, b, c - 1)

\* a * b for a < 2^60
BMul(a, b) ==
  Carried(SubSeq([c \in 1..(Len(a) + Len(b) + 2) |->
                    (Col(a, b, c) % Base) + (Col(a, b, c - 1) \div Base)],
                 1, Len(a) + Len(b) + 2))

\* a * 2^n
BShl(a, n) ==
  Norm([i \in 1..(Len(a) + (n \div 15) + 1) |->
          ((Limb(a, i - (n \div 15)) * 2 ^ (n % 15)) % Base)
            + (Limb(a, i - (n \div 15) - 1) \div 2 ^ (15 - (n % 15)))])

\* a \div 2^n
BShr(a, n) ==
  Norm([i \in 1..Len(a) |->
          (Limb(a, i + (n \div 15)) \div 2 ^ (n % 15))
            + (Limb(a, i + (n \div 15) + 1) % 2 ^ (n % 15))
                * 2 ^ (15 - (n % 15))])

\* the first guess of a quotient digit, from the leading limbs; b is
\* normalised (its leading limb is at least Base / 2) and r < b * Base
QEst(r, b) ==
  IF Len(r) < Len(b) THEN 0
  ELSE IF (Limb(r, Len(b) + 1) * Base + r[Len(b)]) \div b[Len(b)] >= Base
       THEN Base - 1
  ELSE (Limb(r, Len(b) + 1) * Base + r[Len(b)]) \div b[Len(b)]

RECURSIVE QFix(_, _, _)
QFix(r, b, q) == IF BCmp(BMulSmall(b, q), r) <= 0 THEN q ELSE QFix(r, b, q - 1)

\* long division, limb by limb from a[i] down; r is the remainder and q the
\* quotient of the limbs above a[i]
RECURSIVE DivStep(_, _, _, _, _)
RECURSIVE DivDigit(_, _, _, _, _, _)
DivStep(a, b, i, r, q) ==
  IF i = 0 THEN [q |-> q, r |-> r]
  ELSE IF QEst(Norm(<<a[i]>> \o r), b) = 0
       THEN DivStep(a, b, i - 1, Norm(<<a[i]>> \o r), <<0>> \o q)
  ELSE DivDigit(a, b, i, Norm(<<a[i]>> \o r),
                QFix(Norm(<<a[i]>> \o r), b, QEst(Norm(<<a[i]>> \o r), b)), q)

DivDigit(a, b, i, r1, qd, q) ==
  DivStep(a, b, i - 1, BSub(r1, BMulSmall(b, qd)), <<qd>> \o q)

\* the limbs of a above the last Len(b) - 1 are divided one by one, the
\* leading Len(b) - 1, less than b, are the first remainder
DivFrom(a, b) ==
  IF Len(a) < Len(b) THEN [q |-> <<>>, r |-> a]
  ELSE DivStep(a, b, Len(a) - Len(b) + 1,
               Norm(SubSeq(a, Len(a) - Len(b) + 2, Len(a))), <<>>)

DivResult(res, sh) == [q |-> Norm(res.q), r |-> BShr(res.r, sh)]

DivShifted(a, b, sh) == DivResult(DivFrom(BShl(a, sh), BShl(b, sh)), sh)

\* quotient and remainder of a by b, b # 0; the divisor is normalised first
BDivMod(a, b) == DivShifted(a, b, 15 - IntBitLen(b[Len(b)]))

(***************************************************************************)
(* f64.  A value is [neg, exp, man]: (-1)^neg * man * 2^exp, with man = 0  *)
(* (zero, kept positive) or 2^52 <= man < 2^53.  Every operation computes  *)
(* the exact result and rounds it once, to nearest, ties to even.  The     *)
(* exponent is not limited: no value computed here comes near the ends of  *)
(* the binary64 range, and infinities and NaN are not represented.         *)
(***************************************************************************)
FZero == [neg |-> FALSE, exp |-> 0, man |-> <<>>]

\* (-1)^neg * (M * 2^E, plus a little when sticky) rounded to 53 bits
\* m is the rounded mantissa, of 53 bits, or 2^53 after a carry
Pack(neg, m, E) ==
  IF BitLen(m) = 54 THEN [neg |-> neg, exp |-> E + 1, man |-> BShr(m, 1)]
  ELSE [neg |-> neg, exp |-> E, man |-> m]

\* hi is the mantissa cut to 53 bits, half the first bit cut off, low
\* whether anything lies below that bit
RoundUp(neg, hi, half, low, E) ==
  Pack(neg, IF half /\ (low \/ BIsOdd(hi)) THEN BAdd(hi, <<1>>) ELSE hi, E)

\* t is M cut to 54 bits: the mantissa and the first bit cut off
RoundCut(neg, M, E, sticky, sh, t) ==
  RoundUp(neg, BShr(t, 1), BIsOdd(t), sticky \/ BShl(t, sh - 1) # M, E + sh)

RoundBits(neg, M, E, sticky, n) ==
  IF n <= 53 THEN [neg |-> neg, exp |-> E - (53 - n), man |-> BShl(M, 53 - n)]
  ELSE RoundCut(neg, M, E, sticky, n - 53, BShr(M, n - 54))

RoundF(neg, M, E, sticky) ==
  IF M = <<>> THEN FZero ELSE RoundBits(neg, M, E, sticky, BitLen(M))

\* `n as f64` for an integer n
FromInt(n) == RoundF(n < 0, BFromInt(IF n < 0 THEN -n ELSE n), 0, FALSE)

FNeg(x) == IF x.man = <<>> THEN x ELSE [x EXCEPT !.neg = ~x.neg]

FAbs(x) == [x EXCEPT !.neg = FALSE]

\* M1 * 2^e and M2 * 2^e are the magnitudes of the operands
AddAligned(neg1, M1, neg2, M2, e) ==
  IF neg1 = neg2 THEN RoundF(neg1, BAdd(M1, M2), e, FALSE)
  ELSE IF BCmp(M1, M2) >= 0 THEN RoundF(neg1, BSub(M1, M2), e, FALSE)
  ELSE RoundF(neg2, BSub(M2, M1), e, FALSE)

AddAt(x, y, e) ==
  AddAligned(x.neg, BShl(x.man, x.exp - e), y.neg, BShl(y.man, y.exp - e), e)

FAdd(x, y) ==
  IF x.man = <<>> THEN y
  ELSE IF y.man = <<>> THEN x
  ELSE AddAt(x, y, IF x.exp < y.exp THEN x.exp ELSE y.exp)

FSub(x, y) == FAdd(x, FNeg(y))

FMul(x, y) ==
  IF x.man = <<>> \/ y.man = <<>> THEN FZero
  ELSE RoundF(x.neg # y.neg, BMul(x.man, y.man), x.exp + y.exp, FALSE)

\* x / y for y # 0
DivRound(neg, d, E) == RoundF(neg, d.q, E, d.r # <<>>)

FDiv(x, y) ==
  IF x.man = <<>> THEN FZero
  ELSE DivRound(x.neg # y.neg, BDivMod(BShl(x.man, 60), y.man),
                x.exp - y.exp - 60)

\* -1, 0, 1 as |x| is less than, equal to, greater than |y|
FCmpMag(x, y) ==
  IF x.man = <<>> THEN (IF y.man = <<>> THEN 0 ELSE -1)
  ELSE IF y.man = <<>> THEN 1
  ELSE IF x.exp # y.exp THEN (IF x.exp < y.exp THEN -1 ELSE 1)
  ELSE BCmp(x.man, y.man)

FCmp(x, y) ==
  IF x.neg # y.neg THEN (IF x.neg THEN -1 ELSE 1)
  ELSE IF x.neg THEN FCmpMag(y, x) ELSE FCmpMag(x, y)

FLt(x, y) == FCmp(x, y) < 0
FLe(x, y) == FCmp(x, y) <= 0
FGt(x, y) == FCmp(x, y) > 0
FEq(x, y) == x = y

\* f64::round: to the nearest integer, halves away from zero
\* t is |x| in halves, cut to an integer
RoundHalves(neg, t) ==
  RoundF(neg, IF BIsOdd(t) THEN BAdd(BShr(t, 1), <<1>>) ELSE BShr(t, 1),
         0, FALSE)

FRound(x) ==
  IF x.man = <<>> \/ x.exp >= 0 THEN x
  ELSE RoundHalves(x.neg, BShr(x.man, (-x.exp) - 1))

\* `x as u8`: toward zero, saturating at 0 and 255
Saturate(ip) == IF BitLen(ip) > 8 THEN 255 ELSE BToInt(ip)

\* a cast that keeps the low eight bits of the integer, as `x as i64 as u8`
AsU8Wrap(x) ==
  IF x.man = <<>> \/ x.exp >= 0 THEN 0
  ELSE IF x.neg THEN (256 - (Limb(BShr(x.man, -x.exp), 1) % 256)) % 256
  ELSE Limb(BShr(x.man, -x.exp), 1) % 256

AsU8(x) ==
  IF x.man = <<>> \/ x.neg THEN 0
  ELSE IF x.exp >= 0 THEN 255
  ELSE Saturate(BShr(x.man, -x.exp))

(***************************************************************************)
(* The literals of the source.                                             *)
(***************************************************************************)
F1   == FromInt(1)
F2   == FromInt(2)
F3   == FromInt(3)
F6   == FromInt(6)
F255 == FromInt(255)
F360 == FromInt(360)

FHalf      == FDiv(F1, F2)
FThird     == FDiv(F1, F3)
FTwoThirds == FDiv(F2, F3)
FSixth     == FDiv(F1, F6)

(***************************************************************************)
(* The expressions of HSL::from_rgb.                                       *)
(***************************************************************************)
Max8(a, b) == IF a >= b THEN a ELSE b

Min8(a, b) == IF a <= b THEN a ELSE b

\* `c as f64 / 255_f64`
Normalized(c) == FDiv(FromInt(c), F255)

\* the sum of the extremes, not their average
LuminositySum(max, min) == FAdd(max, min)

Luminosity(max, min) == FDiv(FAdd(max, min), F2)

\* the formula of the dark half, for every luminosity
SaturationDark(l, delta, max, min) == FDiv(delta, FAdd(max, min))

Saturation(l, delta, max, min) ==
  IF FLt(l, FHalf) THEN FDiv(delta, FAdd(max, min))
  ELSE FDiv(delta, FSub(FSub(F2, max), min))

\* r2, g2, b2
Channel2(max, c, delta) ==
  FDiv(FAdd(FDiv(FSub(max, c), F6), FDiv(delta, F2)), delta)

SectorRed(r2, g2, b2) == FSub(b2, g2)

\* the green sector without its offset of a third
SectorGreenNoOffset(r2, g2, b2) == FSub(r2, b2)

SectorGreen(r2, g2, b2) == FSub(FAdd(FThird, r2), b2)

\* the blue sector with the offset of the green one
SectorBlueThird(r2, g2, b2) == FSub(FAdd(FThird, g2), r2)

SectorBlue(r2, g2, b2) == FSub(FAdd(FTwoThirds, g2), r2)

Sector(max, r, g, r2, g2, b2) ==
  IF FEq(max, r) THEN SectorRed(r2, g2, b2)
  ELSE IF FEq(max, g) THEN SectorGreen(r2, g2, b2)
  ELSE SectorBlue(r2, g2, b2)

\* no wraparound fix
FixWraparoundNone(h) == h

FixWraparound(h) ==
  IF FLt(h, FZero) THEN FAdd(h, F1)
  ELSE IF FGt(h, F1) THEN FSub(h, F1)
  ELSE h

F100 == FromInt(100)

\* x rounded to 2 decimal places
Round2(x) == FDiv(FRound(FMul(x, F100)), F100)

\* degrees rounded to 2 decimal places
DegreesRounded(h) == Round2(FMul(h, F360))

Degrees(h) == FMul(h, F360)

(***************************************************************************)
(* percent_to_byte, hue_to_rgb and the expressions of HSL::to_rgb.         *)
(***************************************************************************)
percent_to_byte(percent) == AsU8(FRound(FMul(percent, F255)))

\* a normalisation that only lifts negative values
NormalizeLow(t) == IF FLt(t, FZero) THEN FAdd(t, F1) ELSE t

Normalize(t) ==
  IF FLt(t, FZero) THEN FAdd(t, F1)
  ELSE IF FGt(t, F1) THEN FSub(t, F1)
  ELSE t

Interpolate(p, q, t) ==
  IF FLt(t, FSixth) THEN FAdd(p, FMul(FMul(FSub(q, p), F6), t))
  ELSE IF FLt(t, FHalf) THEN q
  ELSE IF FLt(t, FTwoThirds)
       THEN FAdd(p, FMul(FMul(FSub(q, p), FSub(FTwoThirds, t)), F6))
  ELSE p

hue_to_rgb(p, q, t) == Interpolate(p, q, Normalize(t))

\* the formula of the dark half, for every luminosity
ChromaQDark(s, l) == FMul(l, FAdd(F1, s))

ChromaQ(s, l) ==
  IF FLt(l, FHalf) THEN FMul(l, FAdd(F1, s))
  ELSE FSub(FAdd(l, s), FMul(l, s))

ChromaP(l, q) == FSub(FMul(F2, l), q)

\* the luminosity cast without scaling it to 0..255
GrayUnscaled(l) == <<AsU8(FRound(l)), AsU8(FRound(l)), AsU8(FRound(l))>>

Gray(l) == <<percent_to_byte(l), percent_to_byte(l), percent_to_byte(l)>>

\* the three hue_to_rgb calls
Fractions(p, q, h) ==
  <<hue_to_rgb(p, q, FAdd(h, FThird)),
    hue_to_rgb(p, q, h),
    hue_to_rgb(p, q, FSub(h, FThird))>>

Bytes(v) ==
  <<percent_to_byte(v[1]), percent_to_byte(v[2]), percent_to_byte(v[3])>>

\* the value of HSL { h, s, l }.to_rgb()
ToRgb(h, s, l) ==
  IF FEq(s, FZero) THEN Gray(l)
  ELSE Bytes(Fractions(ChromaP(l, ChromaQ(s, l)), ChromaQ(s, l),
                       FDiv(h, F360)))

(***************************************************************************)
(* The inputs.  A caller either converts an RGB pixel with from_rgb and    *)
(* the result back with to_rgb, or builds an HSL value from its public     *)
(* fields and calls to_rgb on it.                                          *)
(***************************************************************************)
NumLevels == 5
NumFrac   == 5
NumHues   == 6

\* the pairs of the crate's tests: <<r, g, b>>, hue in degrees, saturation
\* and luminosity in hundredths
Reference ==
  { [rgb |-> <<0, 0, 0>>,       h |-> 0,   s |-> 0,   l |-> 0],
    [rgb |-> <<255, 255, 255>>, h |-> 0,   s |-> 0,   l |-> 100],
    [rgb |-> <<18, 35, 67>>,    h |-> 219, s |-> 58,  l |-> 17],
    [rgb |-> <<147, 198, 205>>, h |-> 187, s |-> 37,  l |-> 69],
    [rgb |-> <<186, 218, 85>>,  h |-> 74,  s |-> 64,  l |-> 59],
    [rgb |-> <<255, 255, 0>>,   h |-> 60,  s |-> 100, l |-> 50],
    [rgb |-> <<198, 250, 172>>, h |-> 100, s |-> 89,  l |-> 83],
    [rgb |-> <<250, 173, 199>>, h |-> 340, s |-> 89,  l |-> 83] }

\* the f64 literal for n hundredths
Hundredths(n) == FDiv(FromInt(n), FromInt(100))

RefHsl(ref) ==
  [h |-> FromInt(ref.h), s |-> Hundredths(ref.s), l |-> Hundredths(ref.l)]

Levels == {(255 * i) \div NumLevels : i \in 0..NumLevels}

RgbInputs ==
  {<<r, g, b>> : r \in Levels, g \in Levels, b \in Levels}
    \cup {ref.rgb : ref \in Reference}

\* hues in degrees: through the circle, and outside of it
HueInputs ==
  {(360 * i) \div NumHues : i \in 0..NumHues} \cup {-90, 450, 720}

\* saturations and luminosities: i / NumFrac through [0, 1], and outside of it
FracInputs ==
  {FDiv(FromInt(i), FromInt(NumFrac)) : i \in 0..NumFrac}
    \cup {FNeg(FHalf), FAdd(F1, FHalf)}

HslInputs ==
  {[h |-> FromInt(d), s |-> x, l |-> y] :
      d \in HueInputs, x \in FracInputs, y \in FracInputs}
    \cup {RefHsl(ref) : ref \in Reference}

None == <<>>

(***************************************************************************)
(* The state: the caller's pixel rgb, the HSL value hsl and the pixel out  *)
(* that to_rgb returns, and the locals of the two calls.                   *)
(*   from_rgb: norm = [r, g, b, min, max], lum = [l, delta],               *)
(*             chan = [r2, g2, b2], hue = h before `h * 360_f64`           *)
(*   to_rgb:   chroma = [h, q, p], offs = the three offset hues as         *)
(*             hue_to_rgb normalises them, vals = its three results        *)
(* rgb[1], rgb[2], rgb[3] are the source's rgb[0], rgb[1], rgb[2].         *)
(***************************************************************************)
VARIABLES pc, rgb, hsl, out, norm, lum, chan, hue, chroma, offs, vals

vars == <<pc, rgb, hsl, out, norm, lum, chan, hue, chroma, offs, vals>>

Init ==
  /\ out = None
  /\ norm = None /\ lum = None /\ chan = None /\ hue = None
  /\ chroma = None /\ offs = None /\ vals = None
  /\ \/ pc = "rgb" /\ rgb \in RgbInputs /\ hsl = None
     \/ pc = "hsl" /\ rgb = None /\ hsl \in HslInputs

\* let hsl = HSL::from_rgb(&rgb)
from_rgb ==
  /\ pc = "rgb"
  /\ norm' = [r   |-> Normalized(rgb[1]),
              g   |-> Normalized(rgb[2]),
              b   |-> Normalized(rgb[3]),
              min |-> Normalized(Min8(Min8(rgb[1], rgb[2]), rgb[3])),
              max |-> Normalized(Max8(Max8(rgb[1], rgb[2]), rgb[3]))]
  /\ lum' = [l     |-> Luminosity(norm'.max, norm'.min),
             delta |-> FSub(norm'.max, norm'.min)]
  /\ IF FEq(lum'.delta, FZero)
     THEN /\ chan' = None
          /\ hue' = None
          /\ hsl' = [h |-> FZero, s |-> FZero, l |-> lum'.l]
     ELSE /\ chan' = [r2 |-> Channel2(norm'.max, norm'.r, lum'.delta),
                      g2 |-> Channel2(norm'.max, norm'.g, lum'.delta),
                      b2 |-> Channel2(norm'.max, norm'.b, lum'.delta)]
          /\ hue' = FixWraparound(Sector(norm'.max, norm'.r, norm'.g,
                                         chan'.r2, chan'.g2, chan'.b2))
          /\ hsl' = [h |-> Degrees(hue'),
                     s |-> Saturation(lum'.l, lum'.delta, norm'.max, norm'.min),
                     l |-> lum'.l]
  /\ pc' = "hsl"
  /\ UNCHANGED <<rgb, out, chroma, offs, vals>>

\* let out = hsl.to_rgb()
to_rgb ==
  /\ pc = "hsl"
  /\ IF FEq(hsl.s, FZero)
     THEN /\ chroma' = None
          /\ offs' = None
          /\ vals' = None
          /\ out' = Gray(hsl.l)
     ELSE /\ chroma' = [h |-> FDiv(hsl.h, F360),
                        q |-> ChromaQ(hsl.s, hsl.l),
                        p |-> ChromaP(hsl.l, ChromaQ(hsl.s, hsl.l))]
          /\ offs' = <<Normalize(FAdd(chroma'.h, FThird)),
                       Normalize(chroma'.h),
                       Normalize(FSub(chroma'.h, FThird))>>
          /\ vals' = Fractions(chroma'.p, chroma'.q, chroma'.h)
          /\ out' = Bytes(vals')
  /\ pc' = "done"
  /\ UNCHANGED <<rgb, hsl, norm, lum, chan, hue>>

Next == from_rgb \/ to_rgb

Spec == Init /\ [][Next]_vars

(***************************************************************************)
(* The tolerances of the crate's tests, and the comparisons made with      *)
(* them.                                                                   *)
(***************************************************************************)
EPSILON == Hundredths(5)

EPSILON_DEGREE == FHalf

EPSILON_RGB == 2

Abs(n) == IF n < 0 THEN -n ELSE n

\* `(a as i32 - b as i32).abs() <= EPSILON_RGB` on each channel
CloseRgb(a, b) == \A i \in 1..3 : Abs(a[i] - b[i]) <= EPSILON_RGB

\* `(x - y).abs() <= eps`
CloseTo(x, y, eps) == FLe(FAbs(FSub(x, y)), eps)

CloseHsl(want, got) ==
  /\ CloseTo(want.h, got.h, EPSILON_DEGREE)
  /\ CloseTo(want.s, got.s, EPSILON)
  /\ CloseTo(want.l, got.l, EPSILON)

InUnit(x) == FLe(FZero, x) /\ FLe(x, F1)

IsByte(n) == n \in 0..255

IsGray(c) == c[1] = c[2] /\ c[2] = c[3]

\* 1e-9: the room left to the rounding of f64 arithmetic; a handful of
\* operations on values up to 360 err by less than 1e-12, and nothing
\* below 1e-3 shows in a byte
Rounding == FDiv(F1, FromInt(1000000000))

Near(x, y) == CloseTo(x, y, Rounding)

\* from_rgb has returned for the pixel rgb
Converted == rgb # None /\ hsl # None

\* to_rgb has returned for a value whose fields lie in the documented ranges
InRange ==
  /\ FLe(FZero, hsl.h) /\ FLe(hsl.h, F360)
  /\ InUnit(hsl.s) /\ InUnit(hsl.l)

(***************************************************************************)
(* C1: the round trip.  For every pixel, to_rgb of from_rgb of the pixel   *)
(* differs from the pixel by at most 2 on each channel.                    *)
(***************************************************************************)
C1_RoundTrip == (pc = "done" /\ rgb # None) => CloseRgb(rgb, out)

\* a coloured pixel has gone through both conversions
C1_Witness ==
  /\ pc = "done" /\ rgb # None
  /\ chan # None /\ vals # None
  /\ ~IsGray(rgb)

(***************************************************************************)
(* C2: from_rgb returns 0 <= h < 360, 0 <= s <= 1 and 0 <= l <= 1.         *)
(***************************************************************************)
C2_Ranges ==
  Converted =>
    /\ FLe(FZero, hsl.h) /\ FLt(hsl.h, F360)
    /\ InUnit(hsl.s)
    /\ InUnit(hsl.l)

\* a hue of the last sector, where the sector formula is negative before
\* the wraparound fix
C2_Witness ==
  /\ Converted /\ chan # None
  /\ FLt(SectorRed(chan.r2, chan.g2, chan.b2), FZero)
  /\ rgb[1] > rgb[3] /\ rgb[3] > rgb[2]
  /\ FGt(hsl.h, FromInt(300))

(***************************************************************************)
(* C3: from_rgb of a gray pixel (v, v, v) is exactly h = 0, s = 0 and      *)
(* l = v / 255, so black is (0, 0, 0) and white (0, 0, 1); from_rgb of     *)
(* any other pixel has s > 0.                                              *)
(***************************************************************************)
C3_Gray ==
  Converted =>
    /\ IsGray(rgb) =>
         hsl = [h |-> FZero, s |-> FZero, l |-> FDiv(FromInt(rgb[1]), F255)]
    /\ rgb = <<0, 0, 0>> => hsl = [h |-> FZero, s |-> FZero, l |-> FZero]
    /\ rgb = <<255, 255, 255>> => hsl = [h |-> FZero, s |-> FZero, l |-> F1]
    /\ ~IsGray(rgb) => FGt(hsl.s, FZero)

\* a gray that is neither black nor white has been converted
C3_Witness ==
  /\ Converted /\ IsGray(rgb)
  /\ rgb[1] \in 1..254
  /\ FGt(hsl.l, FZero) /\ FLt(hsl.l, F1)

(***************************************************************************)
(* C4: the reference pairs of the tests.  from_rgb of the pixel is within  *)
(* 0.5 degrees, 0.05 and 0.05 of the listed h, s, l, and to_rgb of the     *)
(* listed h, s, l is within 2 of the pixel on each channel.                *)
(***************************************************************************)
C4_ReferencePairs ==
  \A ref \in Reference :
    /\ (rgb = ref.rgb /\ hsl # None) => CloseHsl(RefHsl(ref), hsl)
    /\ (pc = "done" /\ rgb = None /\ hsl = RefHsl(ref)) =>
         CloseRgb(ref.rgb, out)

\* the listed value of a coloured pair has been converted, to a pixel that
\* is close to the listed one and is not the listed one
C4_Witness ==
  \E ref \in Reference :
    /\ pc = "done" /\ rgb = None /\ hsl = RefHsl(ref)
    /\ vals # None
    /\ out # ref.rgb /\ CloseRgb(ref.rgb, out)

(***************************************************************************)
(* C5: with s = 0 and l in [0, 1], to_rgb returns the gray whose three     *)
(* channels are (l * 255.0) rounded to the nearest integer, whatever the   *)
(* hue: the result is the one for hue 0, and out[1] - 1/2 <= l * 255.0 <   *)
(* out[1] + 1/2.                                                           *)
(***************************************************************************)
C5_GrayIgnoresHue ==
  (pc = "done" /\ FEq(hsl.s, FZero) /\ InUnit(hsl.l)) =>
    /\ IsGray(out) /\ IsByte(out[1])
    /\ out = ToRgb(FZero, hsl.s, hsl.l)
    /\ FLe(FSub(FromInt(out[1]), FHalf), FMul(hsl.l, F255))
    /\ FLt(FMul(hsl.l, F255), FAdd(FromInt(out[1]), FHalf))

\* a gray between black and white, from a hue outside of the circle
C5_Witness ==
  /\ pc = "done" /\ rgb = None
  /\ FEq(hsl.s, FZero) /\ InUnit(hsl.l)
  /\ FGt(hsl.h, F360)
  /\ out[1] \in 1..254

(***************************************************************************)
(* C6: to_rgb returns for every value, also with the hue outside of        *)
(* [0, 360] and s or l outside of [0, 1]: each channel is a byte, and a    *)
(* channel fraction below 0 gives 0, one above 1 gives 255.                *)
(***************************************************************************)
C6_Clamped ==
  pc = "done" =>
    /\ \A i \in 1..3 : IsByte(out[i])
    /\ vals # None =>
         \A i \in 1..3 :
           /\ FLt(vals[i], FZero) => out[i] = 0
           /\ FGt(vals[i], F1) => out[i] = 255
    /\ vals = None =>
         /\ FLt(hsl.l, FZero) => out = <<0, 0, 0>>
         /\ FGt(hsl.l, F1) => out = <<255, 255, 255>>

\* one result with a channel fraction below 0 and another above 1
C6_Witness ==
  /\ pc = "done" /\ vals # None
  /\ ~InRange
  /\ \E i \in 1..3 : FLt(vals[i], FZero) /\ out[i] = 0
  /\ \E i \in 1..3 : FGt(vals[i], F1) /\ out[i] = 255

(***************************************************************************)
(* C7: with s and l in [0, 1], to_rgb returns the same pixel for hue 0 and *)
(* for hue 360: the result for either is the value for both.               *)
(***************************************************************************)
C7_FullTurn ==
  (/\ pc = "done"
   /\ hsl.h \in {FZero, F360}
   /\ InUnit(hsl.s) /\ InUnit(hsl.l)) =>
    /\ out = ToRgb(FZero, hsl.s, hsl.l)
    /\ out = ToRgb(F360, hsl.s, hsl.l)

\* a colour, not a gray, at hue 360
C7_Witness ==
  /\ pc = "done" /\ rgb = None
  /\ hsl.h = F360
  /\ InUnit(hsl.s) /\ InUnit(hsl.l)
  /\ vals # None /\ ~IsGray(out)

(***************************************************************************)
(* C8, as claimed: the hue from_rgb returns is rounded to 2 decimal        *)
(* places, a multiple of 0.01.  Read with the room of Rounding, so that a  *)
(* hue one bit away from a multiple is not what refutes it.                *)
(***************************************************************************)
C8_Original == Converted => Near(hsl.h, Round2(hsl.h))

(***************************************************************************)
(* C8, as the code has it: the hue from_rgb returns is the hue fraction    *)
(* times 360, and nothing is rounded after the product.                    *)
(***************************************************************************)
C8_NotRounded == (Converted /\ hue # None) => hsl.h = FMul(hue, F360)

\* a hue that is far from every multiple of 0.01 has been returned
C8_Witness ==
  /\ Converted /\ hue # None
  /\ ~Near(hsl.h, Round2(hsl.h))

(***************************************************************************)
(* C9, as claimed: with the hue in [0, 360] and s, l in [0, 1],            *)
(* 0 <= p <= q <= 1, the three offset hues are in [0, 1] after             *)
(* hue_to_rgb's normalisation, and each hue_to_rgb result is in [p, q].    *)
(***************************************************************************)
C9_Original ==
  (pc = "done" /\ chroma # None /\ InRange) =>
    /\ FLe(FZero, chroma.p) /\ FLe(chroma.p, chroma.q) /\ FLe(chroma.q, F1)
    /\ \A i \in 1..3 :
         /\ InUnit(offs[i])
         /\ FLe(chroma.p, vals[i]) /\ FLe(vals[i], chroma.q)

(***************************************************************************)
(* C9, as the code has it: p and q are in [0, 1], the normalised offset    *)
(* hues are in [0, 1] and each hue_to_rgb result is in [0, 1]; p <= q and  *)
(* p <= result <= q hold up to the rounding of the arithmetic only.        *)
(***************************************************************************)
C9_ChromaBounds ==
  (pc = "done" /\ chroma # None /\ InRange) =>
    /\ InUnit(chroma.p) /\ InUnit(chroma.q)
    /\ FLe(chroma.p, FAdd(chroma.q, Rounding))
    /\ \A i \in 1..3 :
         /\ InUnit(offs[i])
         /\ InUnit(vals[i])
         /\ FLe(FSub(chroma.p, Rounding), vals[i])
         /\ FLe(vals[i], FAdd(chroma.q, Rounding))

\* an offset hue has been wrapped, and a result lies strictly between p and q
C9_Witness ==
  /\ pc = "done" /\ chroma # None /\ InRange
  /\ FGt(FAdd(chroma.h, FThird), F1)
  /\ \E i \in 1..3 : FLt(chroma.p, vals[i]) /\ FLt(vals[i], chroma.q)

(***************************************************************************)
(* C10: the pixels with two channels at the maximum.  Tied(c, i, j) is a   *)
(* pixel whose channels i and j are equal and above the third.             *)
(***************************************************************************)
Tied(c, i, j) == c[i] = c[j] /\ \E k \in 1..3 : c[k] < c[i]

\* the hue in degrees that a sector formula gives
SectorHue(sector) == FMul(FixWraparound(sector), F360)

RedHue == SectorHue(SectorRed(chan.r2, chan.g2, chan.b2))

GreenHue == SectorHue(SectorGreen(chan.r2, chan.g2, chan.b2))

BlueHue == SectorHue(SectorBlue(chan.r2, chan.g2, chan.b2))

(***************************************************************************)
(* C10, as claimed: the sector formulas of the two tied channels give the  *)
(* same hue, 60 degrees for red and green, 180 for green and blue, 300 for *)
(* red and blue.                                                           *)
(***************************************************************************)
C10_Original ==
  (Converted /\ chan # None) =>
    /\ Tied(rgb, 1, 2) =>
         RedHue = GreenHue /\ hsl.h = FromInt(60)
    /\ Tied(rgb, 2, 3) =>
         GreenHue = BlueHue /\ hsl.h = FromInt(180)
    /\ Tied(rgb, 1, 3) =>
         RedHue = BlueHue /\ hsl.h = FromInt(300)

(***************************************************************************)
(* C10, as the code has it: the sector formulas of the two tied channels   *)
(* and the hue returned agree with 60, 180 and 300 degrees up to the       *)
(* rounding of the arithmetic, not to the last bit.                        *)
(***************************************************************************)
C10_TieBreak ==
  (Converted /\ chan # None) =>
    /\ Tied(rgb, 1, 2) =>
         /\ Near(RedHue, FromInt(60)) /\ Near(GreenHue, FromInt(60))
         /\ Near(hsl.h, FromInt(60))
    /\ Tied(rgb, 2, 3) =>
         /\ Near(GreenHue, FromInt(180)) /\ Near(BlueHue, FromInt(180))
         /\ Near(hsl.h, FromInt(180))
    /\ Tied(rgb, 1, 3) =>
         /\ Near(RedHue, FromInt(300)) /\ Near(BlueHue, FromInt(300))
         /\ Near(hsl.h, FromInt(300))

\* red and green tied at the maximum, and the two formulas differ
C10_Witness ==
  /\ Converted /\ chan # None
  /\ Tied(rgb, 1, 2)
  /\ RedHue # GreenHue

=============================================================================
